---- MODULE Spec2Model ----
(***************************************************************************)
(* Model of the node generators of faustwasm (FaustDspGenerator):          *)
(* FaustMonoDspGenerator and FaustPolyDspGenerator.                        *)
(*                                                                         *)
(* Every method of the generators is an async function.  An async function *)
(* runs synchronously up to its first await, so one action models the code *)
(* from the call (or from the resumption after an await) up to the next    *)
(* await or to the return.  The collaborators that are awaited (the        *)
(* compiler, the wasm instantiator, audioWorklet.addModule) settle in an   *)
(* action of their own, which also runs the generator's continuation.      *)
(***************************************************************************)
EXTENDS Integers, Sequences, FiniteSets, TLC

\* ------------------------------------------------------------------ bounds
\* Number of generator calls (createNode, compileNode, createOfflineProcessor)
\* made in one behaviour.
MaxCalls == 2

\* ------------------------------------------------------------------ values
\* bufferSize = 1024, the default of createNode's last parameter.
DefaultBufferSize == 1024

\* JavaScript's null / undefined, and the states of a promise.
Null == [kind |-> "null"]
Undefined == [kind |-> "undefined"]
Pending == [kind |-> "pending"]
Rejected == [kind |-> "rejected"]

\* BaseAudioContext objects of the page.
Contexts == {"ctx1", "ctx2"}

\* DSP names given by the caller, as sequences of characters.
Names == {<<"a">>, <<"a", "1">>}

\* compile_options strings of the metadata documents, as sequences of characters.
OptionsSingle == <<"-", "f", "t", "z">>
OptionsDouble == <<"-", "e", "s", " ", "-", "d", "o", "u", "b", "l", "e">>

\* FaustDspFactory: cfactory is the handle of the compiled module, json its
\* metadata document (FaustDspMeta).
FaustDspFactory(handle, options, ins, outs) ==
    [cfactory |-> handle,
     json |-> [compile_options |-> options, inputs |-> ins, outputs |-> outs]]

Factories ==
    {FaustDspFactory(2, OptionsSingle, 1, 2), FaustDspFactory(12, OptionsDouble, 2, 1)}

\* Factories of effects.
EffectFactories == {FaustDspFactory(7, OptionsSingle, 2, 2)}

\* The wasm mixer modules: mixer32.wasm (single) and mixer64.wasm (double).
MixerModule(double) == [kind |-> "mixerModule", double |-> double]
MixerModules == {MixerModule(FALSE), MixerModule(TRUE)}

\* The mixer module a caller of poly createNode has loaded.
LoadedMixerModules == {MixerModule(FALSE)}

\* Numbers of voices asked for.
VoiceCounts == {4}

\* DSP programs and compilation parameters given to compileNode.  The empty
\* string stands for an absent effectCode.
DspCodes == {"process = os.osc(440);"}
EffectCodes == {"", "process = dm.zita_light;"}
CompileArgs == {"-ftz 2"}

\* ------------------------------------------------------------------ pure functions
\* Number.prototype.toString(): the decimal text of a non-negative integer.
DigitChar(d) ==
    CASE d = 0 -> "0" [] d = 1 -> "1" [] d = 2 -> "2" [] d = 3 -> "3" [] d = 4 -> "4"
      [] d = 5 -> "5" [] d = 6 -> "6" [] d = 7 -> "7" [] d = 8 -> "8" [] d = 9 -> "9"

RECURSIVE toString(_)
toString(n) == IF n < 10 THEN <<DigitChar(n)>> ELSE toString(n \div 10) \o <<DigitChar(n % 10)>>

\* String.prototype.match with a pattern without metacharacters: the pattern
\* occurs somewhere in the string.
match(str, pattern) ==
    \E i \in 1..(Len(str) - Len(pattern) + 1) :
        \A k \in 1..Len(pattern) : str[i + k - 1] = pattern[k]

DoubleFlag == <<"-", "d", "o", "u", "b", "l", "e">>

\* sampleSize with the options compared as a whole: compile_options === "-double".
sampleSize_WholeOptions(factory) == IF factory.json.compile_options = DoubleFlag THEN 8 ELSE 4

\* const sampleSize = JSONObj.compile_options.match("-double") ? 8 : 4;
sampleSize(factory) == IF match(factory.json.compile_options, DoubleFlag) THEN 8 ELSE 4

\* const name = nameIn + factory.cfactory.toString();
MonoWorkletName(nameIn, factory) == nameIn \o toString(factory.cfactory)

\* const name = nameIn + voiceFactory.cfactory.toString() + "_poly";
PolyWorkletName(nameIn, voiceFactory) ==
    nameIn \o toString(voiceFactory.cfactory) \o <<"_", "p", "o", "l", "y">>

\* ------------------------------------------------------------------ state
VARIABLES
    gWorkletProcessorsMono, \* FaustMonoDspGenerator.gWorkletProcessors
    gWorkletProcessorsPoly, \* FaustPolyDspGenerator.gWorkletProcessors
    fFactory,               \* the mono generator's fFactory
    fVoiceFactory,          \* the poly generator's fVoiceFactory
    fEffectFactory,         \* the poly generator's fEffectFactory
    calls,                  \* the generator calls made so far, in call order
    addModuleCalls,         \* every audioWorklet.addModule call, with its state
    lastCompiled            \* what the compiler last delivered to mono compileNode

vars == <<gWorkletProcessorsMono, gWorkletProcessorsPoly, fFactory, fVoiceFactory,
          fEffectFactory, calls, addModuleCalls, lastCompiled>>

\* The static sets, the constructors and an idle page.
Init ==
    /\ gWorkletProcessorsMono = {}
    /\ gWorkletProcessorsPoly = {}
    /\ fFactory = Null
    /\ fVoiceFactory = Null
    /\ fEffectFactory = Null
    /\ calls = <<>>
    /\ addModuleCalls = {}
    /\ lastCompiled = Null

CallIds == 1..Len(calls)

\* The calls that have settled (returned or rejected).
Settled == {j \in CallIds : calls[j].pc = "done"}

\* A call as it is made: nothing awaited, nothing returned.
\* factory, effectFactory, mixerModule and voices are the arguments of createNode
\* once it is called; given is what the caller of compileNode passed, compiled
\* what the compiler delivered to this call (compiledEffect and fetchedMixer what
\* it delivered for the effect and the mixer of a poly call); steps lists the
\* calls made to the compiler and to createNode, in order.
NewCall(op, context, nameIn, sp) ==
    [op |-> op, pc |-> "called", context |-> context, nameIn |-> nameIn, sp |-> sp,
     factory |-> Null, effectFactory |-> Undefined, mixerModule |-> Null, voices |-> 0,
     name |-> <<>>, cacheHit |-> FALSE, addModules |-> 0, addModuleRejected |-> FALSE,
     instantiationFailed |-> FALSE, given |-> <<>>, compiled |-> Pending,
     compiledEffect |-> Pending, fetchedMixer |-> Pending,
     steps |-> <<>>, startedAfter |-> Settled, result |-> Pending]

MonoOps == {"mono.createNode", "mono.compileNode"}
PolyOps == {"poly.createNode", "poly.compileNode"}

\* ------------------------------------------------------------------ nodes
\* new FaustMonoAudioWorkletNode(context, name, factory, sampleSize)
FaustMonoAudioWorkletNode(context, name, factory, size) ==
    [kind |-> "FaustMonoAudioWorkletNode", context |-> context, name |-> name,
     factory |-> factory, sampleSize |-> size]

\* The wasm instance the instantiator delivers, and what it delivers when
\* instantiation fails: no instance.
DspInstance(factory) == [kind |-> "instance", factory |-> factory]
NoInstance == [kind |-> "noInstance"]

\* new FaustMonoWebAudioDsp(instance, sampleRate, sampleSize, bufferSize)
FaustMonoWebAudioDsp(instance, size, bufferSize) ==
    [instance |-> instance, sampleSize |-> size, bufferSize |-> bufferSize,
     numInputs |-> IF instance = NoInstance THEN 0 ELSE instance.factory.json.inputs,
     numOutputs |-> IF instance = NoInstance THEN 0 ELSE instance.factory.json.outputs]

\* FaustMonoScriptProcessorNode created with the two counts exchanged:
\* createScriptProcessor(bufferSize, outs, ins).
FaustMonoScriptProcessorNode_CountsSwapped(context, dsp) ==
    [kind |-> "FaustMonoScriptProcessorNode", context |-> context,
     bufferSize |-> dsp.bufferSize, numInputs |-> dsp.numOutputs,
     numOutputs |-> dsp.numInputs, dsp |-> dsp]

\* context.createScriptProcessor(bufferSize, ins, outs), given the prototype of
\* FaustMonoScriptProcessorNode and initialised with the dsp.
FaustMonoScriptProcessorNode(context, dsp) ==
    [kind |-> "FaustMonoScriptProcessorNode", context |-> context,
     bufferSize |-> dsp.bufferSize, numInputs |-> dsp.numInputs,
     numOutputs |-> dsp.numOutputs, dsp |-> dsp]

\* new FaustOfflineProcessor(monoDsp, bufferSize)
FaustOfflineProcessor(dsp) ==
    [kind |-> "FaustOfflineProcessor", bufferSize |-> dsp.bufferSize, dsp |-> dsp]

\* ------------------------------------------------------------------ mono createNode
\* MonoCreateNodeRun without the test of sp: every build takes the worklet branch.
MonoCreateNodeRun_SpIgnored(c, factory) ==
    LET c0 == [c EXCEPT !.factory = factory,
                        !.steps = Append(c.steps, [fn |-> "createNode"])]
        name == MonoWorkletName(c.nameIn, factory)
    IN
    IF name \notin gWorkletProcessorsMono
    THEN [c0 EXCEPT !.name = name, !.addModules = c.addModules + 1, !.pc = "addModule"]
    ELSE [c0 EXCEPT !.name = name, !.cacheHit = TRUE, !.pc = "done",
                    !.result = FaustMonoAudioWorkletNode(
                                   c.context, name, factory, sampleSize(factory))]

\* FaustMonoDspGenerator.createNode from its first line to its first await (or
\* to its return, on a cache hit): the call record c of call id after that run.
MonoCreateNodeRun(c, factory) ==
    LET c0 == [c EXCEPT !.factory = factory,
                        !.steps = Append(c.steps, [fn |-> "createNode"])]
    IN
    IF c.sp
    THEN \* await FaustWasmInstantiator.createAsyncMonoDSPInstance(factory)
         [c0 EXCEPT !.pc = "instantiate"]
    ELSE LET name == MonoWorkletName(c.nameIn, factory) IN
         IF name \notin gWorkletProcessorsMono
         THEN \* await context.audioWorklet.addModule(url)
              [c0 EXCEPT !.name = name, !.addModules = c.addModules + 1, !.pc = "addModule"]
         ELSE \* return new FaustMonoAudioWorkletNode(context, name, factory, sampleSize)
              [c0 EXCEPT !.name = name, !.cacheHit = TRUE, !.pc = "done",
                         !.result = FaustMonoAudioWorkletNode(
                                        c.context, name, factory, sampleSize(factory))]

\* The addModule call that a run of createNode leaves pending, if any.
AddModuleStarted(c, id, after) ==
    IF after.pc = "addModule"
    THEN {[call |-> id, n |-> after.addModules, context |-> after.context,
           name |-> after.name, state |-> "pending"]}
    ELSE {}

\* MonoCreateNode with the name added to the cache before addModule is awaited.
MonoCreateNode_EagerAdd(context, nameIn, factory, sp) ==
    /\ Len(calls) < MaxCalls
    /\ LET id == Len(calls) + 1
           c == NewCall("mono.createNode", context, nameIn, sp)
           after == MonoCreateNodeRun(c, factory)
       IN  /\ calls' = Append(calls, after)
           /\ addModuleCalls' = addModuleCalls \cup AddModuleStarted(c, id, after)
           /\ gWorkletProcessorsMono' =
                  IF after.pc = "addModule" THEN gWorkletProcessorsMono \cup {after.name}
                                            ELSE gWorkletProcessorsMono
    /\ UNCHANGED <<gWorkletProcessorsPoly, fFactory, fVoiceFactory, fEffectFactory,
                   lastCompiled>>

\* A caller calls createNode(context, nameIn, factory, sp) on a mono generator.
MonoCreateNode(context, nameIn, factory, sp) ==
    /\ Len(calls) < MaxCalls
    /\ LET id == Len(calls) + 1
           c == NewCall("mono.createNode", context, nameIn, sp)
           after == MonoCreateNodeRun(c, factory)
       IN  /\ calls' = Append(calls, after)
           /\ addModuleCalls' = addModuleCalls \cup AddModuleStarted(c, id, after)
    /\ UNCHANGED <<gWorkletProcessorsMono, gWorkletProcessorsPoly, fFactory,
                   fVoiceFactory, fEffectFactory, lastCompiled>>

\* The state of the addModule call that call i awaits becomes s.
SettleAddModule(i, s) ==
    {IF r.call = i /\ r.state = "pending" THEN [r EXCEPT !.state = s] ELSE r :
        r \in addModuleCalls}

\* MonoAddModuleResolves without gWorkletProcessors.add(name).
MonoAddModuleResolves_NameNotKept(i) ==
    /\ i \in CallIds
    /\ calls[i].pc = "addModule"
    /\ calls[i].op \in MonoOps
    /\ LET c == calls[i] IN
       calls' = [calls EXCEPT ![i] =
           [c EXCEPT !.pc = "done",
                     !.result = FaustMonoAudioWorkletNode(
                                    c.context, c.name, c.factory, sampleSize(c.factory))]]
    /\ addModuleCalls' = SettleAddModule(i, "resolved")
    /\ UNCHANGED <<gWorkletProcessorsMono, gWorkletProcessorsPoly, fFactory,
                   fVoiceFactory, fEffectFactory, lastCompiled>>

\* audioWorklet.addModule resolves for a mono call: the name is kept and the
\* AudioWorkletNode is created.
MonoAddModuleResolves(i) ==
    /\ i \in CallIds
    /\ calls[i].pc = "addModule"
    /\ calls[i].op \in MonoOps
    /\ LET c == calls[i] IN
       /\ gWorkletProcessorsMono' = gWorkletProcessorsMono \cup {c.name}
       /\ calls' = [calls EXCEPT ![i] =
              [c EXCEPT !.pc = "done",
                        !.result = FaustMonoAudioWorkletNode(
                                       c.context, c.name, c.factory, sampleSize(c.factory))]]
    /\ addModuleCalls' = SettleAddModule(i, "resolved")
    /\ UNCHANGED <<gWorkletProcessorsPoly, fFactory, fVoiceFactory, fEffectFactory,
                   lastCompiled>>

\* MonoAddModuleRejects with a catch block that calls addModule again.
MonoAddModuleRejects_Retries(i) ==
    /\ i \in CallIds
    /\ calls[i].pc = "addModule"
    /\ calls[i].op \in MonoOps
    /\ calls[i].addModules < 3
    /\ calls' = [calls EXCEPT ![i] =
           [calls[i] EXCEPT !.addModuleRejected = TRUE,
                            !.addModules = calls[i].addModules + 1]]
    /\ addModuleCalls' = SettleAddModule(i, "rejected") \cup
           {[call |-> i, n |-> calls[i].addModules + 1, context |-> calls[i].context,
             name |-> calls[i].name, state |-> "pending"]}
    /\ UNCHANGED <<gWorkletProcessorsMono, gWorkletProcessorsPoly, fFactory,
                   fVoiceFactory, fEffectFactory, lastCompiled>>

\* MonoAddModuleRejects with the name kept although the registration failed.
MonoAddModuleRejects_NameKept(i) ==
    /\ i \in CallIds
    /\ calls[i].pc = "addModule"
    /\ calls[i].op \in MonoOps
    /\ gWorkletProcessorsMono' = gWorkletProcessorsMono \cup {calls[i].name}
    /\ calls' = [calls EXCEPT ![i] =
           [calls[i] EXCEPT !.pc = "done", !.addModuleRejected = TRUE, !.result = Null]]
    /\ addModuleCalls' = SettleAddModule(i, "rejected")
    /\ UNCHANGED <<gWorkletProcessorsPoly, fFactory, fVoiceFactory, fEffectFactory,
                   lastCompiled>>

\* MonoAddModuleRejects with the name taken out of the cache by the catch block:
\* gWorkletProcessors.delete(name).
MonoAddModuleRejects_NameDropped(i) ==
    /\ i \in CallIds
    /\ calls[i].pc = "addModule"
    /\ calls[i].op \in MonoOps
    /\ gWorkletProcessorsMono' = gWorkletProcessorsMono \ {calls[i].name}
    /\ calls' = [calls EXCEPT ![i] =
           [calls[i] EXCEPT !.pc = "done", !.addModuleRejected = TRUE, !.result = Null]]
    /\ addModuleCalls' = SettleAddModule(i, "rejected")
    /\ UNCHANGED <<gWorkletProcessorsPoly, fFactory, fVoiceFactory, fEffectFactory,
                   lastCompiled>>

\* audioWorklet.addModule rejects for a mono call: the catch block logs and
\* returns null.
MonoAddModuleRejects(i) ==
    /\ i \in CallIds
    /\ calls[i].pc = "addModule"
    /\ calls[i].op \in MonoOps
    /\ calls' = [calls EXCEPT ![i] =
           [calls[i] EXCEPT !.pc = "done", !.addModuleRejected = TRUE, !.result = Null]]
    /\ addModuleCalls' = SettleAddModule(i, "rejected")
    /\ UNCHANGED <<gWorkletProcessorsMono, gWorkletProcessorsPoly, fFactory,
                   fVoiceFactory, fEffectFactory, lastCompiled>>

\* The instantiator delivers an instance to a mono createNode with sp: the
\* ScriptProcessorNode is created around the dsp.
MonoInstantiateResolves(i) ==
    /\ i \in CallIds
    /\ calls[i].pc = "instantiate"
    /\ calls[i].op \in MonoOps
    /\ LET c == calls[i]
           monoDsp == FaustMonoWebAudioDsp(DspInstance(c.factory), sampleSize(c.factory),
                                           DefaultBufferSize)
       IN  calls' = [calls EXCEPT ![i] =
               [c EXCEPT !.pc = "done",
                         !.result = FaustMonoScriptProcessorNode(c.context, monoDsp)]]
    /\ UNCHANGED <<gWorkletProcessorsMono, gWorkletProcessorsPoly, fFactory,
                   fVoiceFactory, fEffectFactory, addModuleCalls, lastCompiled>>

\* What createNode and createOfflineProcessor end with when the instantiator
\* delivers no instance.  Neither tests the instance nor catches: the dsp and
\* the node are built around the missing instance, or one of those
\* constructors throws and the promise of the call rejects.
AfterFailedInstantiation(built) == {built, Rejected}

\* The instantiator fails for a mono createNode with sp.
MonoInstantiateFails(i) ==
    /\ i \in CallIds
    /\ calls[i].pc = "instantiate"
    /\ calls[i].op \in MonoOps
    /\ LET c == calls[i]
           monoDsp == FaustMonoWebAudioDsp(NoInstance, sampleSize(c.factory),
                                           DefaultBufferSize)
       IN  \E r \in AfterFailedInstantiation(FaustMonoScriptProcessorNode(c.context, monoDsp)) :
               calls' = [calls EXCEPT ![i] =
                   [c EXCEPT !.pc = "done", !.instantiationFailed = TRUE, !.result = r]]
    /\ UNCHANGED <<gWorkletProcessorsMono, gWorkletProcessorsPoly, fFactory,
                   fVoiceFactory, fEffectFactory, addModuleCalls, lastCompiled>>

\* ------------------------------------------------------------------ createOfflineProcessor
\* A caller calls createOfflineProcessor(factory, sampleRate, bufferSize): the
\* call awaits the instantiator at once.
CreateOfflineProcessor(factory) ==
    /\ Len(calls) < MaxCalls
    /\ calls' = Append(calls,
           [NewCall("mono.createOfflineProcessor", "none", <<>>, FALSE)
               EXCEPT !.factory = factory, !.pc = "instantiate"])
    /\ UNCHANGED <<gWorkletProcessorsMono, gWorkletProcessorsPoly, fFactory,
                   fVoiceFactory, fEffectFactory, addModuleCalls, lastCompiled>>

\* The instantiator delivers an instance to createOfflineProcessor.
OfflineInstantiateResolves(i) ==
    /\ i \in CallIds
    /\ calls[i].pc = "instantiate"
    /\ calls[i].op = "mono.createOfflineProcessor"
    /\ LET c == calls[i]
           monoDsp == FaustMonoWebAudioDsp(DspInstance(c.factory), sampleSize(c.factory),
                                           DefaultBufferSize)
       IN  calls' = [calls EXCEPT ![i] =
               [c EXCEPT !.pc = "done", !.result = FaustOfflineProcessor(monoDsp)]]
    /\ UNCHANGED <<gWorkletProcessorsMono, gWorkletProcessorsPoly, fFactory,
                   fVoiceFactory, fEffectFactory, addModuleCalls, lastCompiled>>

\* The instantiator fails for createOfflineProcessor.
OfflineInstantiateFails(i) ==
    /\ i \in CallIds
    /\ calls[i].pc = "instantiate"
    /\ calls[i].op = "mono.createOfflineProcessor"
    /\ LET c == calls[i]
           monoDsp == FaustMonoWebAudioDsp(NoInstance, sampleSize(c.factory),
                                           DefaultBufferSize)
       IN  \E r \in AfterFailedInstantiation(FaustOfflineProcessor(monoDsp)) :
               calls' = [calls EXCEPT ![i] =
                   [c EXCEPT !.pc = "done", !.instantiationFailed = TRUE, !.result = r]]
    /\ UNCHANGED <<gWorkletProcessorsMono, gWorkletProcessorsPoly, fFactory,
                   fVoiceFactory, fEffectFactory, addModuleCalls, lastCompiled>>

\* ------------------------------------------------------------------ mono compileNode
\* A caller calls compileNode(context, name, compiler, code, args, sp) on the
\* mono generator: the call awaits compiler.createMonoDSPFactory(name, code, args).
MonoCompileNode(context, nameIn, code, args, sp) ==
    /\ Len(calls) < MaxCalls
    /\ calls' = Append(calls,
           [NewCall("mono.compileNode", context, nameIn, sp)
               EXCEPT !.pc = "compile",
                      !.given = <<nameIn, code, args>>,
                      !.steps = <<[fn |-> "createMonoDSPFactory", name |-> nameIn,
                                   code |-> code, args |-> args]>>])
    /\ UNCHANGED <<gWorkletProcessorsMono, gWorkletProcessorsPoly, fFactory,
                   fVoiceFactory, fEffectFactory, addModuleCalls, lastCompiled>>

\* MonoCompileNodeResumes that keeps the factory of an earlier compilation when
\* this one fails, and builds from it.
MonoCompileNodeResumes_StaleFactory(i, compiled) ==
    /\ i \in CallIds
    /\ calls[i].pc = "compile"
    /\ calls[i].op = "mono.compileNode"
    /\ fFactory' = IF compiled # Null THEN compiled ELSE fFactory
    /\ lastCompiled' = compiled
    /\ LET c == [calls[i] EXCEPT !.compiled = compiled]
           after == IF fFactory' # Null
                    THEN MonoCreateNodeRun(c, fFactory')
                    ELSE [c EXCEPT !.pc = "done", !.result = Null]
       IN  /\ calls' = [calls EXCEPT ![i] = after]
           /\ addModuleCalls' = addModuleCalls \cup AddModuleStarted(c, i, after)
    /\ UNCHANGED <<gWorkletProcessorsMono, gWorkletProcessorsPoly, fVoiceFactory,
                   fEffectFactory>>

\* MonoCompileNodeResumes that stores the factory only when there is one.
MonoCompileNodeResumes_NullNotStored(i, compiled) ==
    /\ i \in CallIds
    /\ calls[i].pc = "compile"
    /\ calls[i].op = "mono.compileNode"
    /\ fFactory' = IF compiled # Null THEN compiled ELSE fFactory
    /\ lastCompiled' = compiled
    /\ LET c == [calls[i] EXCEPT !.compiled = compiled]
           after == IF compiled # Null
                    THEN MonoCreateNodeRun(c, compiled)
                    ELSE [c EXCEPT !.pc = "done", !.result = Null]
       IN  /\ calls' = [calls EXCEPT ![i] = after]
           /\ addModuleCalls' = addModuleCalls \cup AddModuleStarted(c, i, after)
    /\ UNCHANGED <<gWorkletProcessorsMono, gWorkletProcessorsPoly, fVoiceFactory,
                   fEffectFactory>>

\* MonoCompileNodeResumes with createNode given what the shared field held when
\* the call resumed, the factory another call stored there, if there is one.
MonoCompileNodeResumes_SharedField(i, compiled) ==
    /\ i \in CallIds
    /\ calls[i].pc = "compile"
    /\ calls[i].op = "mono.compileNode"
    /\ fFactory' = compiled
    /\ lastCompiled' = compiled
    /\ LET c == [calls[i] EXCEPT !.compiled = compiled]
           after == IF fFactory' # Null
                    THEN MonoCreateNodeRun(c, IF fFactory # Null THEN fFactory ELSE fFactory')
                    ELSE [c EXCEPT !.pc = "done", !.result = Null]
       IN  /\ calls' = [calls EXCEPT ![i] = after]
           /\ addModuleCalls' = addModuleCalls \cup AddModuleStarted(c, i, after)
    /\ UNCHANGED <<gWorkletProcessorsMono, gWorkletProcessorsPoly, fVoiceFactory,
                   fEffectFactory>>

\* The compiler delivers a factory, or null, to mono compileNode:
\*   this.fFactory = await compiler.createMonoDSPFactory(name, code, args);
\*   return this.fFactory ? this.createNode(context, name, this.fFactory, sp, bufferSize) : null;
MonoCompileNodeResumes(i, compiled) ==
    /\ i \in CallIds
    /\ calls[i].pc = "compile"
    /\ calls[i].op = "mono.compileNode"
    /\ fFactory' = compiled
    /\ lastCompiled' = compiled
    /\ LET c == [calls[i] EXCEPT !.compiled = compiled]
           after == IF fFactory' # Null
                    THEN MonoCreateNodeRun(c, fFactory')
                    ELSE [c EXCEPT !.pc = "done", !.result = Null]
       IN  /\ calls' = [calls EXCEPT ![i] = after]
           /\ addModuleCalls' = addModuleCalls \cup AddModuleStarted(c, i, after)
    /\ UNCHANGED <<gWorkletProcessorsMono, gWorkletProcessorsPoly, fVoiceFactory,
                   fEffectFactory>>

\* getFactory() { return this.fFactory; }
getFactory == fFactory

\* ------------------------------------------------------------------ poly nodes
\* new FaustPolyAudioWorkletNode(context, name, voiceFactory, mixerModule, voices,
\*                               sampleSize, effectFactory)
FaustPolyAudioWorkletNode(context, name, voiceFactory, mixerModule, voices, size, effectFactory) ==
    [kind |-> "FaustPolyAudioWorkletNode", context |-> context, name |-> name,
     factory |-> voiceFactory, mixerModule |-> mixerModule, voices |-> voices,
     sampleSize |-> size, effectFactory |-> effectFactory]

\* What createAsyncPolyDSPInstance delivers.
PolyDspInstance(voiceFactory, mixerModule, voices, effectFactory) ==
    [kind |-> "instance", factory |-> voiceFactory, mixerModule |-> mixerModule,
     voices |-> voices, effectFactory |-> effectFactory]

\* new FaustPolyWebAudioDsp(instance, sampleRate, sampleSize, bufferSize)
FaustPolyWebAudioDsp(instance, size, bufferSize) ==
    [instance |-> instance, sampleSize |-> size, bufferSize |-> bufferSize,
     numInputs |-> IF instance = NoInstance THEN 0 ELSE instance.factory.json.inputs,
     numOutputs |-> IF instance = NoInstance THEN 0 ELSE instance.factory.json.outputs]

\* context.createScriptProcessor(bufferSize, ins, outs), given the prototype of
\* FaustPolyScriptProcessorNode and initialised with the dsp.
FaustPolyScriptProcessorNode(context, dsp) ==
    [kind |-> "FaustPolyScriptProcessorNode", context |-> context,
     bufferSize |-> dsp.bufferSize, numInputs |-> dsp.numInputs,
     numOutputs |-> dsp.numOutputs, dsp |-> dsp]

\* ------------------------------------------------------------------ poly createNode
\* FaustPolyDspGenerator.createNode from its first line to its first await (or
\* to its return, on a cache hit): the call record c after that run.
PolyCreateNodeRun(c, voiceFactory, mixerModule, voices, effectFactory) ==
    LET c0 == [c EXCEPT !.factory = voiceFactory, !.mixerModule = mixerModule,
                        !.voices = voices, !.effectFactory = effectFactory,
                        !.steps = Append(c.steps, [fn |-> "createNode"])]
    IN
    IF c.sp
    THEN \* await FaustWasmInstantiator.createAsyncPolyDSPInstance(...)
         [c0 EXCEPT !.pc = "instantiate"]
    ELSE LET name == PolyWorkletName(c.nameIn, voiceFactory) IN
         IF name \notin gWorkletProcessorsPoly
         THEN \* await context.audioWorklet.addModule(url)
              [c0 EXCEPT !.name = name, !.addModules = c.addModules + 1, !.pc = "addModule"]
         ELSE \* return new FaustPolyAudioWorkletNode(...)
              [c0 EXCEPT !.name = name, !.cacheHit = TRUE, !.pc = "done",
                         !.result = FaustPolyAudioWorkletNode(
                                        c.context, name, voiceFactory, mixerModule, voices,
                                        sampleSize(voiceFactory), effectFactory)]

\* A caller calls createNode(context, nameIn, voiceFactory, mixerModule, voices,
\* sp, effectFactory) on a poly generator.
PolyCreateNode(context, nameIn, voiceFactory, mixerModule, voices, sp, effectFactory) ==
    /\ Len(calls) < MaxCalls
    /\ LET id == Len(calls) + 1
           c == NewCall("poly.createNode", context, nameIn, sp)
           after == PolyCreateNodeRun(c, voiceFactory, mixerModule, voices, effectFactory)
       IN  /\ calls' = Append(calls, after)
           /\ addModuleCalls' = addModuleCalls \cup AddModuleStarted(c, id, after)
    /\ UNCHANGED <<gWorkletProcessorsMono, gWorkletProcessorsPoly, fFactory,
                   fVoiceFactory, fEffectFactory, lastCompiled>>

\* audioWorklet.addModule resolves for a poly call: the name is kept and the
\* AudioWorkletNode is created.
PolyAddModuleResolves(i) ==
    /\ i \in CallIds
    /\ calls[i].pc = "addModule"
    /\ calls[i].op \in PolyOps
    /\ LET c == calls[i] IN
       /\ gWorkletProcessorsPoly' = gWorkletProcessorsPoly \cup {c.name}
       /\ calls' = [calls EXCEPT ![i] =
              [c EXCEPT !.pc = "done",
                        !.result = FaustPolyAudioWorkletNode(
                                       c.context, c.name, c.factory, c.mixerModule, c.voices,
                                       sampleSize(c.factory), c.effectFactory)]]
    /\ addModuleCalls' = SettleAddModule(i, "resolved")
    /\ UNCHANGED <<gWorkletProcessorsMono, fFactory, fVoiceFactory, fEffectFactory,
                   lastCompiled>>

\* audioWorklet.addModule rejects for a poly call: the catch block logs and
\* returns null.
PolyAddModuleRejects(i) ==
    /\ i \in CallIds
    /\ calls[i].pc = "addModule"
    /\ calls[i].op \in PolyOps
    /\ calls' = [calls EXCEPT ![i] =
           [calls[i] EXCEPT !.pc = "done", !.addModuleRejected = TRUE, !.result = Null]]
    /\ addModuleCalls' = SettleAddModule(i, "rejected")
    /\ UNCHANGED <<gWorkletProcessorsMono, gWorkletProcessorsPoly, fFactory,
                   fVoiceFactory, fEffectFactory, lastCompiled>>

\* The instantiator delivers the instance to a poly createNode with sp.
PolyInstantiateResolves(i) ==
    /\ i \in CallIds
    /\ calls[i].pc = "instantiate"
    /\ calls[i].op \in PolyOps
    /\ LET c == calls[i]
           instance == PolyDspInstance(c.factory, c.mixerModule, c.voices, c.effectFactory)
           polyDsp == FaustPolyWebAudioDsp(instance, sampleSize(c.factory), DefaultBufferSize)
       IN  calls' = [calls EXCEPT ![i] =
               [c EXCEPT !.pc = "done",
                         !.result = FaustPolyScriptProcessorNode(c.context, polyDsp)]]
    /\ UNCHANGED <<gWorkletProcessorsMono, gWorkletProcessorsPoly, fFactory,
                   fVoiceFactory, fEffectFactory, addModuleCalls, lastCompiled>>

\* The instantiator fails for a poly createNode with sp.
PolyInstantiateFails(i) ==
    /\ i \in CallIds
    /\ calls[i].pc = "instantiate"
    /\ calls[i].op \in PolyOps
    /\ LET c == calls[i]
           polyDsp == FaustPolyWebAudioDsp(NoInstance, sampleSize(c.factory), DefaultBufferSize)
       IN  \E r \in AfterFailedInstantiation(FaustPolyScriptProcessorNode(c.context, polyDsp)) :
               calls' = [calls EXCEPT ![i] =
                   [c EXCEPT !.pc = "done", !.instantiationFailed = TRUE, !.result = r]]
    /\ UNCHANGED <<gWorkletProcessorsMono, gWorkletProcessorsPoly, fFactory,
                   fVoiceFactory, fEffectFactory, addModuleCalls, lastCompiled>>

\* ------------------------------------------------------------------ poly compileNode
\* The program compiled as the effect when no effectCode is given: the adaptor
\* around the effect integrated in the voice code.
AdaptorProgram(dspCode) ==
    <<"adapt(1,1) = _; adapt(2,2) = _,_; adapt(1,2) = _ <: _,_; adapt(2,1) = _,_ :> _;",
      "adaptor(F,G) = adapt(outputs(F),inputs(G));",
      "dsp_code = environment{", dspCode, "};",
      "process = adaptor(dsp_code.process, dsp_code.effect) : dsp_code.effect;">>

\* const effect_dsp = effectCode || `...${dspCode}...`;
effect_dsp(dspCode, effectCode) ==
    IF effectCode # "" THEN <<effectCode>> ELSE AdaptorProgram(dspCode)

\* A caller calls compileNode(context, name, compiler, dspCode, effectCode, args,
\* voices, sp) on the poly generator: the call awaits the compilation of the voice.
PolyCompileNode(context, nameIn, dspCode, effectCode, args, voices, sp) ==
    /\ Len(calls) < MaxCalls
    /\ calls' = Append(calls,
           [NewCall("poly.compileNode", context, nameIn, sp)
               EXCEPT !.pc = "compileVoice",
                      !.given = <<nameIn, dspCode, effectCode, args>>,
                      !.voices = voices,
                      !.steps = <<[fn |-> "createPolyDSPFactory", name |-> nameIn,
                                   code |-> <<dspCode>>, args |-> args,
                                   next |-> effect_dsp(dspCode, effectCode)]>>])
    /\ UNCHANGED <<gWorkletProcessorsMono, gWorkletProcessorsPoly, fFactory,
                   fVoiceFactory, fEffectFactory, addModuleCalls, lastCompiled>>

\* The compiler delivers the voice factory, or null:
\*   if (!voiceFactory) return null;
\*   const effectFactory = await compiler.createPolyDSPFactory(name, effect_dsp, args);
PolyVoiceCompiled(i, voiceFactory) ==
    /\ i \in CallIds
    /\ calls[i].pc = "compileVoice"
    /\ LET c == calls[i] IN
       calls' = [calls EXCEPT ![i] =
           IF voiceFactory = Null
           THEN [c EXCEPT !.pc = "done", !.compiled = Null, !.result = Null]
           ELSE [c EXCEPT !.pc = "compileEffect", !.compiled = voiceFactory,
                          !.factory = voiceFactory,
                          !.steps = Append(c.steps,
                              [fn |-> "createPolyDSPFactory", name |-> c.nameIn,
                               code |-> c.steps[1].next, args |-> c.steps[1].args,
                               next |-> <<>>])]]
    /\ UNCHANGED <<gWorkletProcessorsMono, gWorkletProcessorsPoly, fFactory,
                   fVoiceFactory, fEffectFactory, addModuleCalls, lastCompiled>>

\* PolyEffectCompiled asking for the single-precision mixer whatever the voice:
\* getAsyncInternalMixerModule(false).
PolyEffectCompiled_SingleMixer(i, effectFactory) ==
    /\ i \in CallIds
    /\ calls[i].pc = "compileEffect"
    /\ LET c == calls[i] IN
       calls' = [calls EXCEPT ![i] =
           [c EXCEPT !.pc = "mixer",
                     !.effectFactory = effectFactory,
                     !.compiledEffect = effectFactory,
                     !.steps = Append(c.steps,
                         [fn |-> "getAsyncInternalMixerModule", double |-> FALSE])]]
    /\ UNCHANGED <<gWorkletProcessorsMono, gWorkletProcessorsPoly, fFactory,
                   fVoiceFactory, fEffectFactory, addModuleCalls, lastCompiled>>

\* The compiler delivers the effect factory, or null:
\*   const isDouble = JSONObj.compile_options.match("-double");
\*   const mixerModule = await compiler.getAsyncInternalMixerModule(!!isDouble);
PolyEffectCompiled(i, effectFactory) ==
    /\ i \in CallIds
    /\ calls[i].pc = "compileEffect"
    /\ LET c == calls[i]
           isDouble == match(c.factory.json.compile_options, DoubleFlag)
       IN  calls' = [calls EXCEPT ![i] =
               [c EXCEPT !.pc = "mixer",
                         !.effectFactory = effectFactory,
                         !.compiledEffect = effectFactory,
                         !.steps = Append(c.steps,
                             [fn |-> "getAsyncInternalMixerModule", double |-> isDouble])]]
    /\ UNCHANGED <<gWorkletProcessorsMono, gWorkletProcessorsPoly, fFactory,
                   fVoiceFactory, fEffectFactory, addModuleCalls, lastCompiled>>

\* PolyMixerFetched without the test of mixerModule: createNode is called with
\* whatever the compiler delivered.
PolyMixerFetched_NoMixerTest(i, mixerModule) ==
    /\ i \in CallIds
    /\ calls[i].pc = "mixer"
    /\ mixerModule \in {MixerModule(calls[i].steps[3].double), Null}
    /\ LET c == [calls[i] EXCEPT !.fetchedMixer = mixerModule]
           after == PolyCreateNodeRun(c, c.factory, mixerModule, c.voices,
                        IF c.effectFactory # Null THEN c.effectFactory ELSE Undefined)
       IN  /\ calls' = [calls EXCEPT ![i] = after]
           /\ addModuleCalls' = addModuleCalls \cup AddModuleStarted(c, i, after)
    /\ UNCHANGED <<gWorkletProcessorsMono, gWorkletProcessorsPoly, fFactory,
                   fVoiceFactory, fEffectFactory, lastCompiled>>

\* PolyMixerFetched with an effect that is required: null is returned when the
\* effect compilation delivered null.
PolyMixerFetched_EffectRequired(i, mixerModule) ==
    /\ i \in CallIds
    /\ calls[i].pc = "mixer"
    /\ mixerModule \in {MixerModule(calls[i].steps[3].double), Null}
    /\ LET c == [calls[i] EXCEPT !.fetchedMixer = mixerModule]
           after == IF mixerModule # Null /\ c.effectFactory # Null
                    THEN PolyCreateNodeRun(c, c.factory, mixerModule, c.voices, c.effectFactory)
                    ELSE [c EXCEPT !.pc = "done", !.result = Null]
       IN  /\ calls' = [calls EXCEPT ![i] = after]
           /\ addModuleCalls' = addModuleCalls \cup AddModuleStarted(c, i, after)
    /\ UNCHANGED <<gWorkletProcessorsMono, gWorkletProcessorsPoly, fFactory,
                   fVoiceFactory, fEffectFactory, lastCompiled>>

\* The compiler delivers the mixer module, or nothing:
\*   return mixerModule ? this.createNode(context, name, voiceFactory, mixerModule,
\*                            voices, sp, effectFactory || undefined, bufferSize) : null;
PolyMixerFetched(i, mixerModule) ==
    /\ i \in CallIds
    /\ calls[i].pc = "mixer"
    /\ mixerModule \in {MixerModule(calls[i].steps[3].double), Null}
    /\ LET c == [calls[i] EXCEPT !.fetchedMixer = mixerModule]
           after == IF mixerModule # Null
                    THEN PolyCreateNodeRun(c, c.factory, mixerModule, c.voices,
                             IF c.effectFactory # Null THEN c.effectFactory ELSE Undefined)
                    ELSE [c EXCEPT !.pc = "done", !.result = Null]
       IN  /\ calls' = [calls EXCEPT ![i] = after]
           /\ addModuleCalls' = addModuleCalls \cup AddModuleStarted(c, i, after)
    /\ UNCHANGED <<gWorkletProcessorsMono, gWorkletProcessorsPoly, fFactory,
                   fVoiceFactory, fEffectFactory, lastCompiled>>

\* getVoiceFactory() { return this.fVoiceFactory; }
getVoiceFactory == fVoiceFactory

\* getEffectFactory() { return this.fEffectFactory; }
getEffectFactory == fEffectFactory

\* ------------------------------------------------------------------ specification
\* The calls a page makes.
Call ==
    \/ \E context \in Contexts, nameIn \in Names, factory \in Factories, sp \in BOOLEAN :
           MonoCreateNode(context, nameIn, factory, sp)
    \/ \E factory \in Factories : CreateOfflineProcessor(factory)
    \/ \E context \in Contexts, nameIn \in Names, code \in DspCodes, args \in CompileArgs,
          sp \in BOOLEAN :
           MonoCompileNode(context, nameIn, code, args, sp)
    \/ \E context \in Contexts, nameIn \in Names, voiceFactory \in Factories,
          mixerModule \in LoadedMixerModules, voices \in VoiceCounts, sp \in BOOLEAN,
          effectFactory \in EffectFactories \cup {Undefined} :
           PolyCreateNode(context, nameIn, voiceFactory, mixerModule, voices, sp, effectFactory)
    \/ \E context \in Contexts, nameIn \in Names, dspCode \in DspCodes,
          effectCode \in EffectCodes, args \in CompileArgs, voices \in VoiceCounts,
          sp \in BOOLEAN :
           PolyCompileNode(context, nameIn, dspCode, effectCode, args, voices, sp)

\* The awaited collaborators settle and the generator's code resumes.
Resume ==
    \E i \in 1..MaxCalls :
        \/ MonoAddModuleResolves(i)
        \/ MonoAddModuleRejects(i)
        \/ MonoInstantiateResolves(i)
        \/ MonoInstantiateFails(i)
        \/ OfflineInstantiateResolves(i)
        \/ OfflineInstantiateFails(i)
        \/ \E compiled \in Factories \cup {Null} : MonoCompileNodeResumes(i, compiled)
        \/ PolyAddModuleResolves(i)
        \/ PolyAddModuleRejects(i)
        \/ PolyInstantiateResolves(i)
        \/ PolyInstantiateFails(i)
        \/ \E voiceFactory \in Factories \cup {Null} : PolyVoiceCompiled(i, voiceFactory)
        \/ \E effectFactory \in EffectFactories \cup {Null} : PolyEffectCompiled(i, effectFactory)
        \/ \E mixerModule \in MixerModules \cup {Null} : PolyMixerFetched(i, mixerModule)

Next == Call \/ Resume

Spec == Init /\ [][Next]_vars
\* ------------------------------------------------------------------ properties
\* createNode has been called in call c (directly, or by compileNode).
CreateNodeCalled(c) == \E k \in 1..Len(c.steps) : c.steps[k].fn = "createNode"

\* Call c ran createNode with the worklet backend (sp false or omitted).
WorkletBuild(c) == CreateNodeCalled(c) /\ ~c.sp

\* Calls c and d build from the same CompiledModule with the same generator class.
SameModule(c, d) ==
    /\ (c.op \in MonoOps) = (d.op \in MonoOps)
    /\ c.nameIn = d.nameIn
    /\ c.factory = d.factory

IsWorkletNode(r) == r.kind \in {"FaustMonoAudioWorkletNode", "FaustPolyAudioWorkletNode"}

\* The addModule calls made for a name, in one context or in all.
AddModulesFor(name) == {r \in addModuleCalls : r.name = name}
AddModulesIn(context, name) == {r \in AddModulesFor(name) : r.context = context}

\* C1: when a worklet build j starts after a worklet build i of the same
\* CompiledModule has returned its node, j is a cache hit: it makes no addModule
\* call and still returns a node, and the two builds together have called
\* addModule at most once (exactly once when i was not itself a cache hit).
C1_SecondBuildIsCacheHit ==
    \A i, j \in CallIds :
        ( /\ i \in calls[j].startedAfter
          /\ WorkletBuild(calls[i]) /\ WorkletBuild(calls[j])
          /\ SameModule(calls[i], calls[j])
          /\ IsWorkletNode(calls[i].result) )
        => /\ calls[j].cacheHit
           /\ calls[j].addModules = 0
           /\ calls[j].pc = "done"
           /\ IsWorkletNode(calls[j].result)
           /\ calls[j].result.name = calls[i].result.name
           /\ calls[i].addModules + calls[j].addModules = (IF calls[i].cacheHit THEN 0 ELSE 1)

\* Two builds of one module, one after the other, the first of which registered.
C1_Witness ==
    \E i, j \in CallIds :
        /\ i \in calls[j].startedAfter
        /\ WorkletBuild(calls[i]) /\ WorkletBuild(calls[j])
        /\ SameModule(calls[i], calls[j])
        /\ calls[i].addModules = 1
        /\ IsWorkletNode(calls[i].result)
        /\ IsWorkletNode(calls[j].result)

\* C2: in one context, at most one addModule call is ever made for a name, not
\* counting the calls that were rejected (a build may be tried again after a
\* failure).
C2_RegisteredAtMostOncePerContext ==
    \A context \in Contexts : \A r \in addModuleCalls :
        Cardinality({q \in AddModulesIn(context, r.name) : q.state # "rejected"}) <= 1

\* C3: a worklet build that has returned a node for a context has registered
\* the node's name with that very context, exactly once.
C3_RegisteredWithOwnContext ==
    \A i \in CallIds :
        (WorkletBuild(calls[i]) /\ IsWorkletNode(calls[i].result))
        => Cardinality({r \in AddModulesIn(calls[i].context, calls[i].name) :
                           r.state = "resolved"}) = 1

\* C4: a build whose addModule call was rejected has returned null, built no
\* node, and has called addModule exactly once.
C4_RejectedBuildReturnsNull ==
    \A i \in CallIds :
        calls[i].addModuleRejected
        => /\ calls[i].pc = "done"
           /\ calls[i].result = Null
           /\ calls[i].addModules = 1
           /\ Cardinality({r \in addModuleCalls : r.call = i}) = 1

\* A build whose registration was rejected.
C4_Witness == \E i \in CallIds : calls[i].addModuleRejected /\ WorkletBuild(calls[i])

\* C5: a build j of a name that starts after a build i of that name was rejected
\* is no cache hit and calls addModule itself, unless another build has
\* registered the name meanwhile.
C5_FailedRegistrationNotCached ==
    \A i, j \in CallIds :
        ( /\ i \in calls[j].startedAfter
          /\ calls[i].addModuleRejected
          /\ WorkletBuild(calls[j])
          /\ (calls[i].op \in MonoOps) = (calls[j].op \in MonoOps)
          /\ calls[i].name = calls[j].name
          /\ ~ \E r \in AddModulesFor(calls[j].name) : r.call # j /\ r.state = "resolved" )
        => /\ ~calls[j].cacheHit
           /\ calls[j].addModules = 1
           /\ calls[i].name \notin
                  (IF calls[i].op \in MonoOps THEN gWorkletProcessorsMono
                                              ELSE gWorkletProcessorsPoly)
              \/ \E r \in AddModulesFor(calls[j].name) : r.call = j /\ r.state = "resolved"

\* A rejected build followed by a fresh build of the same name.
C5_Witness ==
    \E i, j \in CallIds :
        /\ i \in calls[j].startedAfter
        /\ calls[i].addModuleRejected
        /\ WorkletBuild(calls[j])
        /\ (calls[i].op \in MonoOps) = (calls[j].op \in MonoOps)
        /\ calls[i].name = calls[j].name
        /\ calls[j].addModules = 1
\* C6: a build whose instantiation failed has ended with null: its promise is
\* not rejected and it has returned no node or processor.
C6_FailedInstantiationReturnsNull ==
    \A i \in CallIds : calls[i].instantiationFailed => calls[i].result = Null

\* What mono createNode can return for call c and the factory it was given.
MonoCreateNodeReturns(c) ==
    IF c.sp
    THEN {FaustMonoScriptProcessorNode(c.context,
              FaustMonoWebAudioDsp(DspInstance(c.factory), sampleSize(c.factory),
                                   DefaultBufferSize))}
         \cup AfterFailedInstantiation(FaustMonoScriptProcessorNode(c.context,
                  FaustMonoWebAudioDsp(NoInstance, sampleSize(c.factory), DefaultBufferSize)))
    ELSE {FaustMonoAudioWorkletNode(c.context, MonoWorkletName(c.nameIn, c.factory),
                                    c.factory, sampleSize(c.factory)),
          Null}

\* The state part of C7, for one mono compileNode call.
C7_PassThrough(i) ==
    LET c == calls[i] IN
    /\ Cardinality({k \in 1..Len(c.steps) : c.steps[k].fn = "createMonoDSPFactory"}) = 1
    /\ c.steps[1] = [fn |-> "createMonoDSPFactory", name |-> c.given[1],
                     code |-> c.given[2], args |-> c.given[3]]
    /\ c.given[1] = c.nameIn
    /\ c.compiled = Pending => (c.pc = "compile" /\ Len(c.steps) = 1)
    /\ c.compiled = Null
       => /\ c.pc = "done" /\ c.result = Null
          /\ ~CreateNodeCalled(c)
          /\ c.addModules = 0 /\ ~c.instantiationFailed
          /\ ~ \E r \in addModuleCalls : r.call = i
    /\ c.compiled \in Factories
       => /\ CreateNodeCalled(c)
          /\ c.factory = c.compiled
          /\ c.pc = "done" => c.result \in MonoCreateNodeReturns(c)

\* C7: mono compileNode calls the compiler once, with the name, code and args it
\* was given; when the compiler delivers no factory it returns null without
\* calling createNode, the instantiator or addModule and leaves both sets of
\* registered names as they were; otherwise it returns what createNode returns
\* for the delivered factory.
C7_MonoCompileNodeIsPassThrough ==
    /\ [](\A i \in CallIds : calls[i].op = "mono.compileNode" => C7_PassThrough(i))
    /\ [][\A i \in CallIds :
            (calls[i].pc = "compile" /\ calls'[i].pc = "done" /\ calls'[i].compiled = Null)
            => UNCHANGED <<gWorkletProcessorsMono, gWorkletProcessorsPoly, addModuleCalls>>]_vars

\* One compileNode whose compilation failed and one whose node was built.
C7_Witness ==
    \E i, j \in CallIds :
        /\ calls[i].op = "mono.compileNode" /\ calls[i].compiled = Null
        /\ calls[j].op = "mono.compileNode" /\ calls[j].compiled \in Factories
        /\ calls[i].pc = "done" /\ calls[j].pc = "done"
        /\ calls[j].result.kind \in {"FaustMonoAudioWorkletNode", "FaustMonoScriptProcessorNode"}

\* C9: getFactory returns what the compiler last delivered to a compileNode of
\* the generator (null before any compilation and after a failed one), and only
\* the resumption of a compileNode changes it.
C9_GetFactoryIsLastCompilation ==
    /\ [](getFactory = lastCompiled)
    /\ [][fFactory' # fFactory
          => \E i \in CallIds : /\ calls[i].op = "mono.compileNode"
                                /\ calls[i].pc = "compile"
                                /\ calls'[i].pc # "compile"]_vars

\* A failed compilation after a successful one whose build did not yield a node.
C9_Witness ==
    /\ Len(calls) = 2
    /\ calls[1].op = "mono.compileNode" /\ calls[2].op = "mono.compileNode"
    /\ calls[1].compiled \in Factories /\ calls[1].result = Null
    /\ calls[2].compiled = Null
    /\ 1 \in calls[2].startedAfter
    /\ getFactory = Null

\* C10: once a poly compileNode whose voice compiled has returned, getVoiceFactory
\* returns a compiled voice factory, and getEffectFactory returns a compiled
\* effect factory if the effect of that call compiled.
C10_PolyFactoriesKept ==
    \A i \in CallIds :
        ( /\ calls[i].op = "poly.compileNode"
          /\ calls[i].pc = "done"
          /\ calls[i].compiled \in Factories )
        => /\ getVoiceFactory \in {calls[j].compiled : j \in CallIds} \ {Null, Pending}
           /\ calls[i].effectFactory \in EffectFactories
              => getEffectFactory \in EffectFactories

\* ------------------------------------------------------------------ C11
\* The calls of createNode, on either generator, directly or through compileNode.
NodeBuilds == {i \in CallIds : calls[i].op \in MonoOps \cup PolyOps /\ CreateNodeCalled(calls[i])}

\* The nodes of the block-synchronous backend.
IsScriptProcessorNode(r) ==
    r.kind \in {"FaustMonoScriptProcessorNode", "FaustPolyScriptProcessorNode"}

\* A build with sp = true has made no addModule call, computed no worklet name,
\* hit no cache and awaits or has had its instantiation; a build with sp = false
\* has hit the cache or called addModule and never instantiates.
C11_BackendBySp ==
    \A i \in NodeBuilds :
        LET c == calls[i] IN
        IF c.sp
        THEN /\ c.addModules = 0 /\ c.name = <<>> /\ ~c.cacheHit /\ ~c.addModuleRejected
             /\ {r \in addModuleCalls : r.call = i} = {}
             /\ c.pc \in {"instantiate", "done"}
             /\ c.pc = "done" => (IsScriptProcessorNode(c.result) \/ c.result = Rejected)
             /\ IsScriptProcessorNode(c.result) => c.result.context = c.context
        ELSE /\ c.pc \in {"addModule", "done"}
             /\ c.cacheHit \/ c.addModules = 1
             /\ c.pc = "done" => (IsWorkletNode(c.result) \/ c.result = Null)

\* A step of a build with sp = true leaves both caches and the addModule calls alone.
C11_SpStepKeepsCache ==
    \A i \in 1..Len(calls') :
        (/\ calls'[i].sp
         /\ calls'[i].op \in MonoOps \cup PolyOps
         /\ CreateNodeCalled(calls'[i])
         /\ (i \notin CallIds \/ calls[i] # calls'[i]))
        => /\ gWorkletProcessorsMono' = gWorkletProcessorsMono
           /\ gWorkletProcessorsPoly' = gWorkletProcessorsPoly
           /\ addModuleCalls' = addModuleCalls

\* C11: a build with sp = true constructs its instance in the caller's context,
\* makes no addModule call and leaves the registration caches unchanged, on the
\* mono and the poly generator alike; the worklet backend is used exactly when
\* sp is false.
C11_SpBuildSkipsWorklet == []C11_BackendBySp /\ [][C11_SpStepKeepsCache]_vars

\* A mono and a poly build with sp = true have both returned their node while
\* nothing was registered.
C11_Witness ==
    /\ \E i \in NodeBuilds : calls[i].sp /\ calls[i].result.kind = "FaustMonoScriptProcessorNode"
    /\ \E i \in NodeBuilds : calls[i].sp /\ calls[i].result.kind = "FaustPolyScriptProcessorNode"

\* ------------------------------------------------------------------ C12
\* The calls of compileNode on the poly generator.
PolyCompiles == {i \in CallIds : calls[i].op = "poly.compileNode"}

\* The order in which poly compileNode calls its collaborators.
PolyCompileOrder ==
    <<"createPolyDSPFactory", "createPolyDSPFactory", "getAsyncInternalMixerModule",
      "createNode">>

\* The steps of a poly compileNode run are a prefix of voice compile, effect
\* compile, mixer fetch, createNode, each started only once the one before it
\* has delivered.
PolyStepsInOrder(c) ==
    /\ Len(c.steps) \in 1..4
    /\ \A k \in 1..Len(c.steps) : c.steps[k].fn = PolyCompileOrder[k]
    /\ c.steps[1].code = <<c.given[2]>>
    /\ Len(c.steps) >= 2 => c.compiled \notin {Pending, Null}
    /\ Len(c.steps) >= 3 => c.compiledEffect # Pending
    /\ Len(c.steps) = 4 => c.fetchedMixer \notin {Pending, Null}

\* The original statement: a settled poly compileNode has returned null exactly
\* when the voice compilation failed or the mixer module was not obtained.
C12_NullOnlyOnVoiceOrMixerFailure ==
    \A i \in PolyCompiles :
        calls[i].pc = "done" =>
            (calls[i].result = Null
                <=> (calls[i].compiled = Null \/ calls[i].fetchedMixer = Null))

\* C12: poly compileNode returns null when the voice compilation fails or the
\* mixer module is not obtained, and otherwise returns what createNode returns,
\* which is null as well when the worklet registration is rejected; its steps run
\* in the order voice compile, effect compile, mixer fetch, createNode, and after
\* a failed voice compilation none of the later three is started.
C12_PolyCompileNodeNullCases ==
    \A i \in PolyCompiles :
        LET c == calls[i] IN
        /\ PolyStepsInOrder(c)
        /\ c.compiled = Null => (Len(c.steps) = 1 /\ c.pc = "done" /\ c.result = Null)
        /\ c.fetchedMixer = Null => (Len(c.steps) = 3 /\ c.pc = "done" /\ c.result = Null)
        /\ (c.pc = "done" /\ c.result = Null)
               => (c.compiled = Null \/ c.fetchedMixer = Null \/ c.addModuleRejected)

\* One poly compileNode has returned null after a failed voice compilation and
\* another after a mixer module that could not be obtained.
C12_Witness ==
    /\ \E i \in PolyCompiles : calls[i].pc = "done" /\ calls[i].compiled = Null
    /\ \E i \in PolyCompiles : calls[i].pc = "done" /\ calls[i].fetchedMixer = Null

\* ------------------------------------------------------------------ C13
\* The effect factory a poly node was built with.
NodeEffectFactory(r) ==
    IF IsWorkletNode(r) THEN r.effectFactory ELSE r.dsp.instance.effectFactory

\* The run of poly compileNode c has returned a node that was fully built.
PolyNodeBuilt(c) ==
    /\ c.pc = "done"
    /\ ~c.addModuleRejected /\ ~c.instantiationFailed
    /\ IsWorkletNode(c.result) \/ IsScriptProcessorNode(c.result)

\* C13: the effect of a poly build is optional: when the effect compilation
\* delivers null but the voice compiled and the mixer module was obtained,
\* compileNode calls createNode with an undefined effect factory and returns the
\* node createNode builds; a compiled effect is passed on as it is; and without
\* an effectCode the program compiled as the effect is the adaptor program
\* around the voice code, with an effectCode it is that code.
C13_EffectIsOptional ==
    \A i \in PolyCompiles :
        LET c == calls[i] IN
        /\ Len(c.steps) >= 2 =>
               /\ c.given[3] = "" =>
                      /\ c.steps[2].code = AdaptorProgram(c.given[2])
                      /\ \E k \in 1..Len(c.steps[2].code) : c.steps[2].code[k] = c.given[2]
               /\ c.given[3] # "" => c.steps[2].code = <<c.given[3]>>
        /\ (c.compiledEffect # Pending /\ c.fetchedMixer \notin {Pending, Null}) =>
               /\ CreateNodeCalled(c)
               /\ c.effectFactory = IF c.compiledEffect = Null THEN Undefined
                                                               ELSE c.compiledEffect
               /\ (c.pc = "done" /\ ~c.addModuleRejected /\ ~c.instantiationFailed) =>
                      /\ PolyNodeBuilt(c)
                      /\ NodeEffectFactory(c.result) = c.effectFactory

\* A poly compileNode without effectCode whose effect compilation failed has
\* returned a node built without effect.
C13_Witness ==
    \E i \in PolyCompiles :
        /\ calls[i].given[3] = ""
        /\ calls[i].compiledEffect = Null
        /\ PolyNodeBuilt(calls[i])
        /\ NodeEffectFactory(calls[i].result) = Undefined

\* ------------------------------------------------------------------ C14
\* getNumInputs() and getNumOutputs() of a built node: a worklet node reads them
\* from the metadata of the factory it was constructed with, a script processor
\* node asks its dsp.
getNumInputs(node) ==
    IF IsWorkletNode(node) THEN node.factory.json.inputs ELSE node.dsp.numInputs
getNumOutputs(node) ==
    IF IsWorkletNode(node) THEN node.factory.json.outputs ELSE node.dsp.numOutputs

\* The builds that have returned a node built over an instantiated, registered
\* module.
NodesBuilt ==
    {i \in NodeBuilds :
        /\ calls[i].pc = "done"
        /\ ~calls[i].addModuleRejected /\ ~calls[i].instantiationFailed
        /\ IsWorkletNode(calls[i].result) \/ IsScriptProcessorNode(calls[i].result)}

\* C14: a node built by createNode reports the input and output counts declared
\* in the metadata of the factory it was built from, and the host node of the
\* block-synchronous backend is created with the counts its dsp reports.
C14_NodeChannelCounts ==
    \A i \in NodesBuilt :
        LET c == calls[i] IN
        /\ getNumInputs(c.result) = c.factory.json.inputs
        /\ getNumOutputs(c.result) = c.factory.json.outputs
        /\ IsScriptProcessorNode(c.result) =>
               /\ c.result.numInputs = c.result.dsp.numInputs
               /\ c.result.numOutputs = c.result.dsp.numOutputs

\* A script processor node and a worklet node have been built from factories
\* whose input and output counts differ.
C14_Witness ==
    /\ \E i \in NodesBuilt :
           /\ calls[i].result.kind = "FaustMonoScriptProcessorNode"
           /\ calls[i].result.numInputs # calls[i].result.numOutputs
    /\ \E i \in NodesBuilt :
           /\ IsWorkletNode(calls[i].result)
           /\ calls[i].factory.json.inputs # calls[i].factory.json.outputs

\* ------------------------------------------------------------------ C15
\* The options contain the text -double: some seven consecutive characters of
\* them spell it.
ContainsDouble(options) ==
    \E k \in 1..Len(options) :
        /\ k + 6 <= Len(options)
        /\ SubSeq(options, k, k + 6) = <<"-", "d", "o", "u", "b", "l", "e">>

\* The calls that have returned something built with a sample width, and that
\* width.
WidthsBuilt ==
    {i \in CallIds :
        /\ calls[i].pc = "done"
        /\ calls[i].result.kind \in
               {"FaustMonoAudioWorkletNode", "FaustPolyAudioWorkletNode",
                "FaustMonoScriptProcessorNode", "FaustPolyScriptProcessorNode",
                "FaustOfflineProcessor"}}
WidthBuilt(r) == IF IsWorkletNode(r) THEN r.sampleSize ELSE r.dsp.sampleSize

\* C15: whatever is built from a factory, by mono or poly createNode in either
\* backend or by createOfflineProcessor, is built with a sample width of 8 when
\* the factory's compile_options contain -double and of 4 otherwise, so that two
\* builds from the same factory use the same width.
C15_SampleWidthFromOptions ==
    /\ \A i \in WidthsBuilt :
           WidthBuilt(calls[i].result) =
               IF ContainsDouble(calls[i].factory.json.compile_options) THEN 8 ELSE 4
    /\ \A i, j \in WidthsBuilt :
           calls[i].factory = calls[j].factory
               => WidthBuilt(calls[i].result) = WidthBuilt(calls[j].result)

\* Two different entry points have built from the same double-precision factory,
\* both with 8 bytes.
C15_Witness ==
    \E i, j \in WidthsBuilt :
        /\ calls[i].result.kind # calls[j].result.kind
        /\ calls[i].factory = calls[j].factory
        /\ ContainsDouble(calls[i].factory.json.compile_options)
        /\ WidthBuilt(calls[i].result) = 8

\* ------------------------------------------------------------------ C16
\* C16: in a poly compileNode run that has called createNode, the mixer module
\* asked for is the double-precision one exactly when the sample width of the
\* voice factory, and of the node built from it, is 8, and the single-precision
\* one exactly when it is 4.
C16_MixerPrecisionIsNodeWidth ==
    \A i \in PolyCompiles :
        LET c == calls[i] IN
        CreateNodeCalled(c) =>
            /\ c.steps[3].fn = "getAsyncInternalMixerModule"
            /\ c.steps[3].double <=> sampleSize(c.factory) = 8
            /\ ~c.steps[3].double <=> sampleSize(c.factory) = 4
            /\ i \in WidthsBuilt =>
                   (c.steps[3].double <=> WidthBuilt(c.result) = 8)

\* A poly compileNode run has asked for the double-precision mixer and returned
\* a node of width 8, another for the single-precision one and a node of width 4.
C16_Witness ==
    /\ \E i \in PolyCompiles \cap WidthsBuilt :
           calls[i].steps[3].double /\ WidthBuilt(calls[i].result) = 8
    /\ \E i \in PolyCompiles \cap WidthsBuilt :
           ~calls[i].steps[3].double /\ WidthBuilt(calls[i].result) = 4

\* ------------------------------------------------------------------ C17
\* C17: no step of any generator operation, successful or failed, removes a name
\* from the registration cache of the mono or of the poly generator.
C17_CacheOnlyGrows ==
    [][/\ gWorkletProcessorsMono \subseteq gWorkletProcessorsMono'
       /\ gWorkletProcessorsPoly \subseteq gWorkletProcessorsPoly']_vars

\* A build has failed its registration of a name that another build had
\* registered, and the name is still in the cache.
C17_Witness ==
    \E i \in CallIds :
        /\ calls[i].pc = "done"
        /\ calls[i].addModuleRejected
        /\ calls[i].name \in gWorkletProcessorsMono \cup gWorkletProcessorsPoly

\* ------------------------------------------------------------------ C18
\* Some addModule call for the name has resolved.
Registered(name) == \E r \in AddModulesFor(name) : r.state = "resolved"

\* Every name in a cache has a resolved addModule call, and so has the name of
\* every worklet node that was constructed.
C18_CachedNamesRegistered ==
    /\ \A name \in gWorkletProcessorsMono \cup gWorkletProcessorsPoly : Registered(name)
    /\ \A i \in CallIds : IsWorkletNode(calls[i].result) => Registered(calls[i].name)

\* A name enters a cache in the step in which a pending addModule call for it
\* resolves.
C18_AddedWhenResolved ==
    \A name \in (gWorkletProcessorsMono' \cup gWorkletProcessorsPoly')
                    \ (gWorkletProcessorsMono \cup gWorkletProcessorsPoly) :
        \E r \in AddModulesFor(name) :
            /\ r.state = "pending"
            /\ [r EXCEPT !.state = "resolved"] \in addModuleCalls'

\* C18: every name in a registration cache is one for which an addModule call
\* has resolved: a name is added in the step that resumes after the resolution,
\* never while the call is pending or when it was rejected, and no worklet node
\* is constructed for a name without a resolved registration of that name.
C18_CacheHoldsRegisteredNames == []C18_CachedNamesRegistered /\ [][C18_AddedWhenResolved]_vars

\* A worklet node has been constructed for a name while another addModule call
\* for the same name is still pending.
C18_Witness ==
    \E i \in CallIds :
        /\ IsWorkletNode(calls[i].result)
        /\ calls[i].name \in gWorkletProcessorsMono \cup gWorkletProcessorsPoly
        /\ \E r \in AddModulesFor(calls[i].name) : r.state = "pending"

\* ------------------------------------------------------------------ C19
\* Two worklet builds on the same generator with the same name argument and the
\* same factory handle.
SamePair(c, d) == c.nameIn = d.nameIn /\ c.factory.cfactory = d.factory.cfactory

\* C19: two worklet builds on the same generator whose (name, factory handle)
\* pairs differ have different cache keys, so that a build which hits the cache
\* does so through a registration made for its own pair.
C19_KeyIsInjective ==
    \A i, j \in CallIds :
        (/\ WorkletBuild(calls[i]) /\ WorkletBuild(calls[j])
         /\ (calls[i].op \in MonoOps) = (calls[j].op \in MonoOps)
         /\ ~SamePair(calls[i], calls[j]))
        => calls[i].name # calls[j].name

\* ------------------------------------------------------------------ C20
\* The calls of compileNode on the mono generator that have called createNode.
MonoCompileBuilds ==
    {i \in CallIds : calls[i].op = "mono.compileNode" /\ CreateNodeCalled(calls[i])}

\* C20: whatever other compileNode calls on the mono generator overlap with it,
\* a compileNode call gives createNode the factory its own compilation
\* delivered, and the node it returns is built from that factory.
C20_BuildsFromOwnFactory ==
    \A i \in MonoCompileBuilds :
        LET c == calls[i] IN
        /\ c.compiled \notin {Pending, Null}
        /\ c.factory = c.compiled
        /\ (c.pc = "done" /\ IsWorkletNode(c.result)) => c.result.factory = c.compiled
        /\ (c.pc = "done" /\ IsScriptProcessorNode(c.result) /\ ~c.instantiationFailed)
               => c.result.dsp.instance.factory = c.compiled

\* Two overlapping compileNode calls were delivered different factories and both
\* returned a node: the shared field holds the factory of the one that resumed
\* last, the node of the other is built from its own.
C20_Witness ==
    \E i, j \in MonoCompileBuilds :
        /\ i < j /\ i \notin calls[j].startedAfter
        /\ calls[i].compiled # calls[j].compiled
        /\ fFactory = calls[i].compiled
        /\ calls[i].pc = "done" /\ calls[j].pc = "done"
        /\ IsWorkletNode(calls[i].result) /\ IsWorkletNode(calls[j].result)
        /\ calls[j].result.factory # fFactory

====
